---- MODULE Spec2Model ----
(***************************************************************************)
(* Front-page news pipeline (SeungHan2/NEWS1): link extraction             *)
(* (build_urls_from_naver.py, main.py), concurrent article fetching and    *)
(* report delivery (main.py, frontpage_analysis.py).                       *)
(*                                                                         *)
(* The module holds several specifications over one set of variables.      *)
(* Each specification drives one part of the program and leaves the        *)
(* variables of the other parts at their idle values:                      *)
(*   SpecExtract  extract_a1_links of both scripts on a listing page       *)
(*   SpecChunk    the two line-based message splitters                     *)
(*   SpecRun      one run of main.main / frontpage_analysis.run_pipeline   *)
(*                / build_urls_from_naver.build_urls_txt                   *)
(*   SpecReport   report assembly of both scripts over every shape of      *)
(*                analysis result                                          *)
(*   SpecDeliver  the chunk delivery loops of both scripts                 *)
(***************************************************************************)
EXTENDS Integers, Sequences, FiniteSets, TLC

VARIABLES
    \* --- link extraction ---
    xPc,        \* "idle" | "call" | "ret"
    xMarkup,    \* the listing page: its <a href> elements in document order
    xVariant,   \* which script's extract_a1_links returned: "build_urls" | "main" | "none"
    xLinks      \* the returned list of URLs

xVars == <<xPc, xMarkup, xVariant, xLinks>>

VARIABLES
    \* --- message splitting ---
    cPc,        \* "idle" | "call" | "ret"
    cMsg,       \* the text to split, a sequence of characters
    cLimit,     \* chunk_size
    cRoutine,   \* which splitter returned: "split_message" | "send_telegram_message" | "none"
    cChunks     \* the chunks produced, in order

cVars == <<cPc, cMsg, cLimit, cRoutine, cChunks>>

VARIABLES
    \* --- one run of main.main, run_pipeline or build_urls_txt ---
    rProg,      \* "main" | "frontpage" | "build_urls" | "none"
    rPc,        \* position in the run
    rItems,     \* the (source, url) items the listing pages / the url file hold
    rTask,      \* main: state of each fetch task in the thread pool
    rFuture,    \* main: the value each finished task returned
    rDoneOrder, \* main: task indices in the order the tasks finished
    rContents,  \* main: the list built from executor.map
    rCursor,    \* frontpage: index of the next item of the per-item loop;
                \* build_urls: number of presses done
    rSummaries, \* frontpage: summary_items
    rAnalysis,  \* the collaborator's reply and what the analysis / classification made of it
    rReport,    \* the report assembled: its kind, topics and links
    rArtifacts, \* report artifacts written so far
    rSent,      \* whether the delivery routine was called with the report
    rExit,      \* how the run ended, "running" until then
    rCalls,     \* the remote requests issued so far: resource, attempt, outcome
    rLines      \* build_urls: the lines gathered for urls.txt

rVars == <<rProg, rPc, rItems, rTask, rFuture, rDoneOrder, rContents, rCursor,
           rSummaries, rAnalysis, rReport, rArtifacts, rSent, rExit, rCalls, rLines>>

VARIABLES
    \* --- chunk delivery ---
    dPc,         \* "idle" | "start" | "loop" | "done"
    dRoutine,    \* "send_telegram" (main.py) | "send_telegram_message" (frontpage) | "none"
    dConfigured, \* whether the bot token and the chat id are set
    dText,       \* the report handed to the routine
    dChunks,     \* its chunks
    dNext,       \* position of the next chunk of the for loop
    dLog         \* the requests posted so far: chunk position, payload size, outcome

dVars == <<dPc, dRoutine, dConfigured, dText, dChunks, dNext, dLog>>

vars == <<xVars, cVars, rVars, dVars>>

IdleExtract == xPc = "idle" /\ xMarkup = <<>> /\ xVariant = "none" /\ xLinks = <<>>
IdleChunk == cPc = "idle" /\ cMsg = <<>> /\ cLimit = 0 /\ cRoutine = "none" /\ cChunks = <<>>
IdleDeliver ==
    /\ dPc = "idle" /\ dRoutine = "none" /\ dConfigured = FALSE /\ dText = <<>>
    /\ dChunks = <<>> /\ dNext = 0 /\ dLog = <<>>
\* No analysis result yet.
NoAnalysis == [reply |-> "none"]

\* No report assembled yet.
NoReport == [kind |-> "none"]

IdleRun ==
    /\ rProg = "none" /\ rPc = "idle" /\ rItems = <<>> /\ rTask = <<>> /\ rFuture = <<>>
    /\ rDoneOrder = <<>> /\ rContents = <<>> /\ rCursor = 0 /\ rSummaries = <<>>
    /\ rAnalysis = NoAnalysis /\ rReport = NoReport /\ rArtifacts = {} /\ rSent = FALSE
    /\ rExit = "running" /\ rCalls = {} /\ rLines = <<>>

-----------------------------------------------------------------------------
(* Generic helpers on sequences.                                           *)

Range(s) == {s[i] : i \in 1..Len(s)}

\* All orderings of a finite set, as sequences without repetition.
RECURSIVE Orderings(_)
Orderings(S) ==
    IF S = {} THEN {<<>>}
    ELSE UNION {{<<x>> \o p : p \in Orderings(S \ {x})} : x \in S}

\* s without the later occurrences of every element (first occurrences kept in order).
RECURSIVE FirstOccurrences(_)
FirstOccurrences(s) ==
    IF s = <<>> THEN <<>>
    ELSE LET init == FirstOccurrences(SubSeq(s, 1, Len(s) - 1))
             last == s[Len(s)]
         IN IF last \in Range(init) THEN init ELSE Append(init, last)

-----------------------------------------------------------------------------
(* Link extraction: extract_a1_links.                                      *)
(*                                                                         *)
(* A listing page is the sequence of its <a href> elements in document     *)
(* order (soup.find_all("a", href=True)).  Each element carries            *)
(*   href   its href attribute, by the parts the code looks at:            *)
(*          the article id, the press code and date it mentions and        *)
(*          whether it is written relative or absolute;                    *)
(*   depth  the number of its ancestors, the last one being the document;  *)
(*   kwAt   the lowest ancestor level whose own subtree (below the         *)
(*          document) holds a front-page keyword, 0 if there is none.      *)
(* An ancestor's get_text covers its whole subtree, so every ancestor at   *)
(* or above kwAt holds the keyword, and the document holds it as soon as   *)
(* any element of the page does.                                           *)

PressCode == "020"
Date == "20250101"
OtherPressCode == "469"
OtherDate == "20241231"

AncestorLevels == 6     \* for _ in range(6)
FallbackLimit == 4      \* if len(candidates) >= 4: break

MaxAnchors == 5         \* anchors on a page
DeepDepth == 8          \* ancestors of an anchor nested in the listing markup
ShallowDepth == 2       \* ancestors of an anchor close to the document root

Href(art, code, date, form) == [art |-> art, code |-> code, date |-> date, form |-> form]

\* The kinds of anchor a page may hold at position i: a matching link to a
\* fresh article (no keyword near it, a keyword at the 6th ancestor, a keyword
\* at the 7th ancestor only), a second, absolute link to article 1 directly
\* under the document, and links of another date or another press.
AnchorKinds == {"plain", "near", "far", "again", "otherdate", "otherpress"}

AnchorAt(kind, i) ==
    CASE kind = "plain" ->
           [href |-> Href(i, PressCode, Date, "rel"), depth |-> DeepDepth, kwAt |-> 0]
      [] kind = "near" ->
           [href |-> Href(i, PressCode, Date, "rel"), depth |-> DeepDepth, kwAt |-> AncestorLevels]
      [] kind = "far" ->
           [href |-> Href(i, PressCode, Date, "rel"), depth |-> DeepDepth, kwAt |-> AncestorLevels + 1]
      [] kind = "again" ->
           [href |-> Href(1, PressCode, Date, "abs"), depth |-> ShallowDepth, kwAt |-> 0]
      [] kind = "otherdate" ->
           [href |-> Href(i, PressCode, OtherDate, "rel"), depth |-> DeepDepth, kwAt |-> 1]
      [] kind = "otherpress" ->
           [href |-> Href(i, OtherPressCode, Date, "rel"), depth |-> DeepDepth, kwAt |-> 0]

\* The page whose anchors are of the given kinds, in document order.
Page(kinds) == [i \in 1..Len(kinds) |-> AnchorAt(kinds[i], i)]

\* f"/article/newspaper/{press_code}/" in href  and  f"date={date}" in href
HrefMatches(href, press_code, date) == href.code = press_code /\ href.date = date

\* urljoin(page_url, href): a relative and an absolute href of one article
\* resolve to the same URL.
urljoin(href) == [art |-> href.art, code |-> href.code, date |-> href.date]

PageHasKey(html) == \E j \in 1..Len(html) : html[j].kwAt # 0

\* any(key in parent.get_text(...)) for the ancestor at `level` of anchor i
AncestorHasKey(html, i, level) ==
    \/ html[i].kwAt # 0 /\ level >= html[i].kwAt
    \/ level = html[i].depth /\ PageHasKey(html)

\* The ancestor walk: up to AncestorLevels parents, stopping at the document.
is_a1(html, i) ==
    \E level \in 1..AncestorLevels :
        level <= html[i].depth /\ AncestorHasKey(html, i, level)

\* First loop: the resolved URLs of the matching, keyword-marked anchors, in
\* document order, repetitions included.
RECURSIVE KeywordScan(_, _, _, _)
KeywordScan(html, n, press_code, date) ==
    IF n = 0 THEN <<>>
    ELSE LET before == KeywordScan(html, n - 1, press_code, date)
         IN IF HrefMatches(html[n].href, press_code, date) /\ is_a1(html, n)
            THEN Append(before, urljoin(html[n].href))
            ELSE before

\* Fallback loop, from anchor i on with `candidates` collected so far: append
\* each matching URL not seen yet; stop once FallbackLimit are collected.
RECURSIVE FallbackScan(_, _, _, _, _)
FallbackScan(html, i, candidates, press_code, date) ==
    IF i > Len(html) THEN candidates
    ELSE LET full_url == urljoin(html[i].href)
             next == IF /\ HrefMatches(html[i].href, press_code, date)
                        /\ full_url \notin Range(candidates)
                     THEN Append(candidates, full_url)
                     ELSE candidates
         IN IF Len(next) >= FallbackLimit THEN next
            ELSE FallbackScan(html, i + 1, next, press_code, date)

\* Variant: the fallback links are added to the keyword-marked ones.
Candidates_Additive(html, press_code, date) ==
    KeywordScan(html, Len(html), press_code, date)
        \o FallbackScan(html, 1, <<>>, press_code, date)

\* candidates as they stand before the final de-duplication (both scripts).
Candidates(html, press_code, date) ==
    LET marked == KeywordScan(html, Len(html), press_code, date)
    IN IF marked = <<>> THEN FallbackScan(html, 1, <<>>, press_code, date)
       ELSE marked

\* Variant: the candidates are returned without the de-duplication pass.
extract_a1_links_NoDedup(html, press_code, date) == Candidates(html, press_code, date)

\* build_urls_from_naver.py: order-preserving de-duplication.
extract_a1_links(html, press_code, date) ==
    FirstOccurrences(Candidates(html, press_code, date))

\* main.py: list(set(candidates)); the iteration order of a set of strings is
\* not determined by the program, so every ordering is a possible result.
main_extract_a1_links(html, press_code, date) ==
    Orderings(Range(Candidates(html, press_code, date)))

InitExtract ==
    /\ xPc = "call"
    /\ \E n \in 0..MaxAnchors : \E kinds \in [1..n -> AnchorKinds] : xMarkup = Page(kinds)
    /\ xVariant = "none"
    /\ xLinks = <<>>
    /\ IdleChunk
    /\ IdleRun
    /\ IdleDeliver

ExtractBuildUrls ==
    /\ xPc = "call"
    /\ xPc' = "ret"
    /\ xVariant' = "build_urls"
    /\ xLinks' = extract_a1_links(xMarkup, PressCode, Date)
    /\ UNCHANGED <<xMarkup, cVars, rVars, dVars>>

ExtractMain ==
    /\ xPc = "call"
    /\ xPc' = "ret"
    /\ xVariant' = "main"
    /\ xLinks' \in main_extract_a1_links(xMarkup, PressCode, Date)
    /\ UNCHANGED <<xMarkup, cVars, rVars, dVars>>

NextExtract == ExtractBuildUrls \/ ExtractMain

SpecExtract == InitExtract /\ [][NextExtract]_vars

-----------------------------------------------------------------------------
(* Message splitting: send_telegram.split_message (main.py) and the        *)
(* chunk loop of send_telegram_message (frontpage_analysis.py).            *)
(* A text is a sequence of characters.                                     *)

LF == "\n"
CR == "\r"
Letters == {"a", "b"}
Alphabet == Letters \cup {LF, CR}

MaxMsgLen == 5      \* characters of a text to split
MaxLimit == 3       \* largest chunk_size tried

MAIN_CHUNK_SIZE == 4000     \* split_message(message, chunk_size=4000)

\* A line of n characters, its line end included.
LineOf(n) == [i \in 1..(n - 1) |-> "a"] \o <<LF>>

\* Reports of 10,050 characters made of one line of 10,000 characters and
\* one of 50, in either order, the last line with or without its line end.
LongReports ==
    { LineOf(10000) \o LineOf(50),
      LineOf(50) \o LineOf(10000),
      LineOf(10000) \o [i \in 1..50 |-> "b"],
      LineOf(50) \o [i \in 1..10000 |-> "b"] }

Min(S) == CHOOSE x \in S : \A y \in S : x <= y

RECURSIVE Join(_)
Join(parts) == IF parts = <<>> THEN <<>> ELSE Head(parts) \o Join(Tail(parts))

\* Length of the first line of a non-empty text, its line end included: a
\* line ends after "\n", after "\r\n", after a lone "\r", or with the text.
FirstLineLen(text) ==
    LET ends == {i \in 1..Len(text) : text[i] \in {LF, CR}}
    IN IF ends = {} THEN Len(text)
       ELSE LET e == Min(ends)
            IN IF text[e] = CR /\ e < Len(text) /\ text[e + 1] = LF THEN e + 1 ELSE e

\* Variant: str.splitlines() without keepends, the line ends dropped.
RECURSIVE splitlines_NoEnds(_)
splitlines_NoEnds(text) ==
    IF text = <<>> THEN <<>>
    ELSE LET n == FirstLineLen(text)
             body == SelectSeq(SubSeq(text, 1, n), LAMBDA c : c \notin {LF, CR})
         IN <<body>> \o splitlines_NoEnds(SubSeq(text, n + 1, Len(text)))

\* str.splitlines(keepends=True)
RECURSIVE splitlines(_)
splitlines(text) ==
    IF text = <<>> THEN <<>>
    ELSE LET n == FirstLineLen(text)
         IN <<SubSeq(text, 1, n)>> \o splitlines(SubSeq(text, n + 1, Len(text)))

\* Variant of Pieces: the pieces of full size only, the rest of the line
\* is lost.
RECURSIVE Pieces_FullOnly(_, _)
Pieces_FullOnly(line, chunk_size) ==
    IF Len(line) < chunk_size THEN <<>>
    ELSE <<SubSeq(line, 1, chunk_size)>>
            \o Pieces_FullOnly(SubSeq(line, chunk_size + 1, Len(line)), chunk_size)

\* [line[i : i + chunk_size] for i in range(0, len(line), chunk_size)]
RECURSIVE Pieces(_, _)
Pieces(line, chunk_size) ==
    IF line = <<>> THEN <<>>
    ELSE IF Len(line) <= chunk_size THEN <<line>>
    ELSE <<SubSeq(line, 1, chunk_size)>>
            \o Pieces(SubSeq(line, chunk_size + 1, Len(line)), chunk_size)

\* The loop of split_message over lines[i..], with the chunks closed so far,
\* the lines of the open chunk and their total length.
RECURSIVE SplitLoop(_, _, _, _, _, _)
SplitLoop(lines, i, chunks, current, current_len, chunk_size) ==
    IF i > Len(lines)
    THEN IF current # <<>> THEN Append(chunks, Join(current)) ELSE chunks
    ELSE LET line == lines[i]
         IN IF Len(line) >= chunk_size
            THEN SplitLoop(lines, i + 1,
                           (IF current # <<>> THEN Append(chunks, Join(current)) ELSE chunks)
                               \o Pieces(line, chunk_size),
                           <<>>, 0, chunk_size)
            ELSE IF current_len + Len(line) > chunk_size
            THEN SplitLoop(lines, i + 1, Append(chunks, Join(current)),
                           <<line>>, Len(line), chunk_size)
            ELSE SplitLoop(lines, i + 1, chunks,
                           Append(current, line), current_len + Len(line), chunk_size)

\* The loop of send_telegram_message over lines[i..], with the chunks closed
\* so far and the text of the open chunk.
RECURSIVE ChunkLoop(_, _, _, _, _)
ChunkLoop(lines, i, chunks, current, chunk_size) ==
    IF i > Len(lines)
    THEN IF current # <<>> THEN Append(chunks, current) ELSE chunks
    ELSE LET line == lines[i]
         IN IF Len(current) + Len(line) > chunk_size /\ current # <<>>
            THEN ChunkLoop(lines, i + 1, Append(chunks, current), line, chunk_size)
            ELSE ChunkLoop(lines, i + 1, chunks, current \o line, chunk_size)

\* Variant: lines are only accumulated, an over-long line is never cut.
split_message_NoHardSplit(msg, chunk_size) ==
    ChunkLoop(splitlines(msg), 1, <<>>, <<>>, chunk_size)

\* main.py send_telegram.split_message(msg, chunk_size)
split_message(msg, chunk_size) ==
    SplitLoop(splitlines(msg), 1, <<>>, <<>>, 0, chunk_size)

\* frontpage_analysis.py send_telegram_message: the chunks of `text`
send_telegram_message_chunks(text, chunk_size) ==
    ChunkLoop(splitlines(text), 1, <<>>, <<>>, chunk_size)

InitChunk ==
    /\ cPc = "call"
    /\ \/ /\ \E n \in 0..MaxMsgLen : cMsg \in [1..n -> Alphabet]
          /\ cLimit \in 1..MaxLimit
       \/ /\ cMsg \in LongReports
          /\ cLimit = MAIN_CHUNK_SIZE
    /\ cRoutine = "none"
    /\ cChunks = <<>>
    /\ IdleExtract
    /\ IdleRun
    /\ IdleDeliver

SplitMessage ==
    /\ cPc = "call"
    /\ cPc' = "ret"
    /\ cRoutine' = "split_message"
    /\ cChunks' = split_message(cMsg, cLimit)
    /\ UNCHANGED <<cMsg, cLimit, xVars, rVars, dVars>>

SendTelegramMessageChunks ==
    /\ cPc = "call"
    /\ cPc' = "ret"
    /\ cRoutine' = "send_telegram_message"
    /\ cChunks' = send_telegram_message_chunks(cMsg, cLimit)
    /\ UNCHANGED <<cMsg, cLimit, xVars, rVars, dVars>>

NextChunk == SplitMessage \/ SendTelegramMessageChunks

SpecChunk == InitChunk /\ [][NextChunk]_vars

-----------------------------------------------------------------------------
(* One run: main.main (main.py) and run_pipeline (frontpage_analysis.py).  *)
(*                                                                         *)
(* Strings of the program are written in ASCII: the press names            *)
(* ("donga", "hankook") and the body sentinel NO_CONTENT stand for the     *)
(* Korean literals of the source.                                          *)

MaxItems == 3           \* items a run starts from
max_workers == 10       \* ThreadPoolExecutor(max_workers=10)

\* The items a run may start from: two presses, one URL listed by both
\* (duplicates across sources are allowed) and one listed by one of them.
ItemPool ==
    { [source |-> "donga", url |-> "u1"],
      [source |-> "hankook", url |-> "u1"],
      [source |-> "hankook", url |-> "u2"] }

NO_CONTENT == "NO_CONTENT"
NoResult == [pending |-> TRUE]

\* What one article fetch can do: find a body, find none, or raise
\* (requests.get fails or times out, the parser fails).
FetchOutcomes == {"text", "no_text", "raise"}

\* main.py fetch_single_article_content(item); the except branch returns the
\* item it was given, which has no "content" key.
fetch_single_article_content(item, outcome) ==
    IF outcome = "raise" THEN item
    ELSE [source |-> item.source, url |-> item.url,
          content |-> IF outcome = "text" THEN "body" ELSE NO_CONTENT]

\* Variant: results are taken in the order the tasks finished (as_completed).
NextResult_AsCompleted(future, doneOrder, k) == future[doneOrder[k]]

\* executor.map yields the result of the k-th submitted task as its k-th value.
NextResult(future, doneOrder, k) == future[k]

\* A reply of the analysis collaborator and one topic of its JSON.
Reply(kind, topics) == [kind |-> kind, topics |-> topics]
Topic(title, ids) == [title |-> title, ids |-> ids]

\* What the analysis collaborator can hand back to analyze_with_gemini in a
\* run: a JSON object with topics, one without, text that is not JSON, a
\* failing call, or JSON that is not an object.
GeminiReplies ==
    { Reply("topics", <<Topic("A", <<0>>)>>),
      Reply("topics", <<Topic("A", <<0>>), Topic("B", <<0, 0>>)>>),
      Reply("no_topics", <<>>),
      Reply("bad_json", <<>>),
      Reply("api_error", <<>>),
      Reply("json_list", <<>>) }

\* analyze_with_gemini(articles) once the prompt is built: json.loads of the
\* reply; a JSONDecodeError or any other exception gives {"topics": []}.
\* A reply that is valid JSON is returned as parsed, whatever its shape.
analyze_with_gemini(reply) ==
    CASE reply.kind = "topics"    -> [type |-> "dict", topics |-> reply.topics]
      [] reply.kind = "no_topics" -> [type |-> "dict", topics |-> <<>>]
      [] reply.kind = "bad_json"  -> [type |-> "dict", topics |-> <<>>]
      [] reply.kind = "api_error" -> [type |-> "dict", topics |-> <<>>]
      [] reply.kind = "json_list" -> [type |-> "list"]

\* The retry policy handed to generate_content repeats the request while the
\* error is transient; MaxAttempts stands for the policy's deadline.
MaxAttempts == 2

\* The requests already made for one remote resource.
Attempts(calls, kind, item) == Cardinality({c \in calls : c.kind = kind /\ c.item = item})

\* One more request for a resource, with its outcome.
Call(calls, kind, item, ok) ==
    calls \cup {[kind |-> kind, item |-> item,
                 attempt |-> Attempts(calls, kind, item) + 1, ok |-> ok]}

(* ---- the report of main.py ---- *)

\* contents[idx] of a Python list: idx counts from 0, a negative idx from the end.
PyIndex(list, idx) == IF idx >= 0 THEN list[idx + 1] ELSE list[Len(list) + idx + 1]

\* contents[idx] raises IndexError below -len(contents); the guard
\* "idx < len(contents)" keeps larger indices away from it.
RaisesIndexError(ids, contents) ==
    \E k \in 1..Len(ids) : ids[k] < Len(contents) /\ ids[k] < 0 - Len(contents)

\* link_tags: one link per member index that passes "idx < len(contents)".
link_tags(ids, contents) ==
    LET kept == SelectSeq(ids, LAMBDA idx : idx < Len(contents))
    IN [k \in 1..Len(kept) |-> [url |-> PyIndex(contents, kept[k]).url,
                                source |-> PyIndex(contents, kept[k]).source]]

\* Variant of sort_topics: the topics stay in the order of the reply.
sort_topics_Unsorted(topics) == topics

\* topics.sort(key=lambda t: len(t.get("ids", [])), reverse=True): a stable
\* sort, so topics of equal size keep the order of the reply.
RECURSIVE sort_topics(_)
sort_topics(topics) ==
    IF topics = <<>> THEN <<>>
    ELSE LET h == Head(topics)
             rest == sort_topics(Tail(topics))
         IN SelectSeq(rest, LAMBDA t : Len(t.ids) > Len(h.ids))
            \o <<h>>
            \o SelectSeq(rest, LAMBDA t : Len(t.ids) <= Len(h.ids))

\* What main writes for one topic: the title, the count "(N건)" of the
\* header, and the links.
render_topic(topic, contents) ==
    [title |-> topic.title, ids |-> topic.ids, count |-> Len(topic.ids),
     links |-> link_tags(topic.ids, contents)]

\* The telegram message main assembles from the sorted topics.
main_report(topics, contents) ==
    IF topics = <<>>
    THEN [kind |-> "failure_notice", topics |-> <<>>]
    ELSE [kind |-> "briefing",
          topics |-> [k \in 1..Len(topics) |-> render_topic(topics[k], contents)]]

Terminate(exit) == rPc' = "done" /\ rExit' = exit

InitRun ==
    /\ rProg \in {"main", "frontpage", "build_urls"}
    /\ rPc = "start"
    /\ \E n \in 0..MaxItems : rItems \in [1..n -> ItemPool]
    /\ rTask = <<>> /\ rFuture = <<>> /\ rDoneOrder = <<>> /\ rContents = <<>>
    /\ rCursor = 0 /\ rSummaries = <<>>
    /\ rAnalysis = NoAnalysis /\ rReport = NoReport /\ rArtifacts = {} /\ rSent = FALSE
    /\ rExit = "running" /\ rCalls = {} /\ rLines = <<>>
    /\ IdleExtract
    /\ IdleChunk
    /\ IdleDeliver

(* ---- main.py ---- *)

\* The configured outlets.
PRESS_LIST == <<"donga", "hankook">>

\* The links the listing page of a press holds.
LinksOf(items, press_name) ==
    LET mine == SelectSeq(items, LAMBDA it : it.source = press_name)
    IN [k \in 1..Len(mine) |-> mine[k].url]

\* main(): links = collect_naver_news_links(), which requests the listing
\* page of every press once (a page that fails gives no link); return if
\* there are none; otherwise fetch_contents_parallel submits one task per
\* item.
Main_CollectLinks ==
    /\ rProg = "main" /\ rPc = "start"
    /\ \E failed \in SUBSET {p \in 1..Len(PRESS_LIST) : LinksOf(rItems, PRESS_LIST[p]) = <<>>} :
          rCalls' = {[kind |-> "listing", item |-> p, attempt |-> 1, ok |-> p \notin failed] :
                        p \in 1..Len(PRESS_LIST)}
    /\ IF rItems = <<>>
       THEN /\ Terminate("return_no_links")
            /\ UNCHANGED <<rTask, rFuture>>
       ELSE /\ rPc' = "fetch"
            /\ rTask' = [i \in 1..Len(rItems) |-> "queued"]
            /\ rFuture' = [i \in 1..Len(rItems) |-> NoResult]
            /\ rExit' = rExit
    /\ UNCHANGED <<rProg, rItems, rDoneOrder, rContents, rCursor, rSummaries,
                   rAnalysis, rReport, rArtifacts, rSent, rLines, xVars, cVars, dVars>>

\* Variant of AfterFetch: a fetch that raised is queued again.
AfterFetch_Requeue(outcome) == IF outcome = "raise" THEN "queued" ELSE "done"

\* The task of an article is finished whatever its fetch did: the except
\* branch of fetch_single_article_content returns, nothing is tried again.
AfterFetch(outcome) == "done"

\* A free worker thread takes the oldest queued task.
Main_StartFetch(i) ==
    /\ rProg = "main" /\ rPc = "fetch"
    /\ rTask[i] = "queued"
    /\ \A j \in 1..(i - 1) : rTask[j] # "queued"
    /\ Cardinality({j \in 1..Len(rTask) : rTask[j] = "running"}) < max_workers
    /\ rTask' = [rTask EXCEPT ![i] = "running"]
    /\ UNCHANGED <<rProg, rPc, rItems, rFuture, rDoneOrder, rContents, rCursor,
                   rSummaries, rAnalysis, rReport, rArtifacts, rSent, rExit, rCalls, rLines, xVars, cVars, dVars>>

\* A worker thread finishes fetch_single_article_content(items[i]).
Main_FinishFetch(i) ==
    /\ rProg = "main" /\ rPc = "fetch"
    /\ rTask[i] = "running"
    /\ \E outcome \in FetchOutcomes :
          /\ rFuture' = [rFuture EXCEPT ![i] = fetch_single_article_content(rItems[i], outcome)]
          /\ rCalls' = Call(rCalls, "fetch", i, outcome # "raise")
          /\ rTask' = [rTask EXCEPT ![i] = AfterFetch(outcome)]
    /\ rDoneOrder' = Append(rDoneOrder, i)
    /\ UNCHANGED <<rProg, rPc, rItems, rContents, rCursor, rSummaries, rAnalysis,
                   rReport, rArtifacts, rSent, rExit, rLines, xVars, cVars, dVars>>

\* fetch_contents_parallel: list(executor.map(...)) takes the next result once
\* the task it waits for has finished; after the last one it returns.
Main_NextResult ==
    /\ rProg = "main" /\ rPc = "fetch"
    /\ LET k == Len(rContents) + 1
       IN /\ k <= Len(rItems)
          /\ rTask[k] = "done"
          /\ rContents' = Append(rContents, NextResult(rFuture, rDoneOrder, k))
          /\ rPc' = IF k = Len(rItems) THEN "analyze" ELSE "fetch"
    /\ UNCHANGED <<rProg, rItems, rTask, rFuture, rDoneOrder, rCursor, rSummaries,
                   rAnalysis, rReport, rArtifacts, rSent, rExit, rCalls, rLines, xVars, cVars, dVars>>

\* analyze_with_gemini(contents): the prompt is built from art['source'] and
\* art['content'] before the try block, so an item without "content" raises
\* KeyError out of main; otherwise generate_content is requested, and
\* requested again after a transient error until the retry policy gives up
\* (the error it then raises is caught like any other).  The executor and
\* its futures are gone by now.  (The "if not GEMINI_API_KEY" return of main
\* cannot be taken: the module exits at import when the key is empty.)
Main_Analyze ==
    /\ rProg = "main" /\ rPc = "analyze"
    /\ IF \E i \in 1..Len(rContents) : "content" \notin DOMAIN rContents[i]
       THEN /\ Terminate("uncaught_KeyError")
            /\ UNCHANGED <<rAnalysis, rCalls, rTask, rFuture, rDoneOrder>>
       ELSE \/ /\ Attempts(rCalls, "analysis", 0) + 1 < MaxAttempts
               /\ rCalls' = Call(rCalls, "analysis", 0, FALSE)
               /\ UNCHANGED <<rPc, rExit, rAnalysis, rTask, rFuture, rDoneOrder>>
            \/ /\ \E reply \in GeminiReplies :
                    /\ rAnalysis' = [reply |-> reply.kind,
                                     result |-> analyze_with_gemini(reply)]
                    /\ rCalls' = Call(rCalls, "analysis", 0, reply.kind # "api_error")
               /\ rPc' = "report"
               /\ rExit' = rExit
               /\ rTask' = <<>> /\ rFuture' = <<>> /\ rDoneOrder' = <<>>
    /\ UNCHANGED <<rProg, rItems, rContents, rCursor,
                   rSummaries, rReport, rArtifacts, rSent, rLines, xVars, cVars, dVars>>

\* main(): result.get("topics", []) needs a dict; the topics are sorted and
\* rendered, or the failure notice is written when there are none.  An index
\* below -len(contents) raises IndexError out of main.
Main_Report ==
    /\ rProg = "main" /\ rPc = "report"
    /\ IF rAnalysis.result.type # "dict"
       THEN /\ Terminate("uncaught_AttributeError")
            /\ UNCHANGED rReport
       ELSE IF \E k \in 1..Len(rAnalysis.result.topics) :
                    RaisesIndexError(rAnalysis.result.topics[k].ids, rContents)
       THEN /\ Terminate("uncaught_IndexError")
            /\ UNCHANGED rReport
       ELSE /\ rReport' = main_report(sort_topics(rAnalysis.result.topics), rContents)
            /\ rPc' = "telegraph"
            /\ rExit' = rExit
    /\ UNCHANGED <<rProg, rItems, rTask, rFuture, rDoneOrder, rContents, rCursor,
                   rSummaries, rAnalysis, rArtifacts, rSent, rCalls, rLines, xVars, cVars, dVars>>

\* create_telegraph_simple: returns the page URL, or "" on any failure.
Main_Telegraph ==
    /\ rProg = "main" /\ rPc = "telegraph"
    /\ \E created \in BOOLEAN :
          rArtifacts' = IF created THEN rArtifacts \cup {"telegraph_page"} ELSE rArtifacts
    /\ rPc' = "send"
    /\ UNCHANGED <<rProg, rItems, rTask, rFuture, rDoneOrder, rContents, rCursor,
                   rSummaries, rAnalysis, rReport, rSent, rExit, rCalls, rLines, xVars, cVars, dVars>>

\* send_telegram(telegram_msg), the last statement of main.
Main_Send ==
    /\ rProg = "main" /\ rPc = "send"
    /\ rSent' = TRUE
    /\ Terminate("completed")
    /\ UNCHANGED <<rProg, rItems, rTask, rFuture, rDoneOrder, rContents, rCursor,
                   rSummaries, rAnalysis, rReport, rArtifacts, rCalls, rLines, xVars, cVars, dVars>>

(* ---- frontpage_analysis.py ---- *)

\* What one iteration of the per-item loop can do.
ItemOutcomes == {"summarized", "fetch_raises", "summarize_raises"}

\* One line of urls.txt: "# press", a URL, or an empty line.
FileLine(kind, text) == [kind |-> kind, text |-> text]

\* build_urls_txt: for each press its "# name" line, its links, and "".
RECURSIVE urls_txt(_, _)
urls_txt(items, i) ==
    IF i > Len(items) THEN <<>>
    ELSE (IF i = 1 \/ items[i - 1].source # items[i].source
          THEN <<FileLine("press", items[i].source)>> ELSE <<>>)
         \o <<FileLine("url", items[i].url)>>
         \o (IF i = Len(items) \/ items[i + 1].source # items[i].source
             THEN <<FileLine("blank", "")>> ELSE <<>>)
         \o urls_txt(items, i + 1)

UNKNOWN_PRESS == "unknown_press"

\* load_items_from_file: empty lines are skipped, a "#" line names the press
\* of the URLs after it, every URL line gets the next index, from 1.
RECURSIVE load_items_from_file(_, _, _)
load_items_from_file(lines, current_source, idx) ==
    IF lines = <<>> THEN <<>>
    ELSE LET line == Head(lines)
         IN CASE line.kind = "blank" ->
                     load_items_from_file(Tail(lines), current_source, idx)
              [] line.kind = "press" ->
                     load_items_from_file(Tail(lines), line.text, idx)
              [] line.kind = "url" ->
                     <<[index |-> idx + 1,
                        source |-> IF current_source = "" THEN UNKNOWN_PRESS
                                   ELSE current_source,
                        url |-> line.text]>>
                     \o load_items_from_file(Tail(lines), current_source, idx + 1)

\* items of run_pipeline: the url file as build_urls_txt writes it, loaded.
Loaded(items) == load_items_from_file(urls_txt(items, 1), "", 0)

\* Variant of AppendSummary: the summary is numbered by its position
\* among the summaries.
AppendSummary_Renumbered(summary_items, item) ==
    Append(summary_items, [index |-> Len(summary_items) + 1, source |-> item.source,
                           url |-> item.url, summary |-> "summary"])

\* summary_items.append({"index": idx, "source": source, "url": url, ...}).
AppendSummary(summary_items, item) ==
    Append(summary_items, [index |-> item.index, source |-> item.source,
                           url |-> item.url, summary |-> "summary"])

\* One entry of the JSON object the classifier returns: a label and numbers.
Entry(label, nums) == [label |-> label, nums |-> nums]

\* What the classification collaborator can hand back to classify_topics in
\* a run: a JSON object (its entries in order), text that is not JSON, a
\* failing call, or JSON that is not an object.
ClassifyReplies ==
    { Reply("topics", <<Entry("A", <<1>>)>>),
      Reply("topics", <<Entry("B", <<2, 1>>), Entry("A", <<1>>)>>),
      Reply("topics", <<>>),
      Reply("bad_json", <<>>),
      Reply("api_error", <<>>),
      Reply("json_list", <<>>) }

\* classify_topics: the parsed object, or {} when anything raises.
classify_topics(reply) ==
    IF reply.kind = "topics" THEN reply.topics ELSE <<>>

\* The topic labels in the order of Python's string comparison.
LabelOrder == <<"A", "B", "C">>

\* sorted(topic_map.keys()).
sorted_keys(topic_map) ==
    SelectSeq(LabelOrder, LAMBDA label : \E k \in 1..Len(topic_map) : topic_map[k].label = label)

\* topic_map[topic_label].
NumsOf(topic_map, label) ==
    LET k == CHOOSE j \in 1..Len(topic_map) : topic_map[j].label = label
    IN topic_map[k].nums

\* The members of a topic that idx_map.get finds among the summaries, in the
\* order of the topic's numbers.
Found(nums, summary_items) ==
    LET known == SelectSeq(nums, LAMBDA n : \E k \in 1..Len(summary_items) :
                                                summary_items[k].index = n)
    IN [j \in 1..Len(known) |->
           summary_items[CHOOSE k \in 1..Len(summary_items) :
                             summary_items[k].index = known[j]]]

\* One line of the link section.
Line(kind, label, index, source, urls) ==
    [kind |-> kind, label |-> label, index |-> index, source |-> source, urls |-> urls]

\* by_source: the URLs of a topic grouped by press, presses in the order of
\* their first member.
by_source(members) ==
    LET sources == FirstOccurrences([j \in 1..Len(members) |-> members[j].source])
    IN [s \in 1..Len(sources) |->
           Line("links", "", 0, sources[s],
                LET mine == SelectSeq(members, LAMBDA m : m.source = sources[s])
                IN [j \in 1..Len(mine) |-> mine[j].url])]

\* The lines of one topic: its label, its presses, an empty line.
RECURSIVE topic_lines(_, _, _)
topic_lines(labels, topic_map, summary_items) ==
    IF labels = <<>> THEN <<>>
    ELSE <<Line("topic", Head(labels), 0, "", <<>>)>>
         \o by_source(Found(NumsOf(topic_map, Head(labels)), summary_items))
         \o <<Line("blank", "", 0, "", <<>>)>>
         \o topic_lines(Tail(labels), topic_map, summary_items)

\* Variant of link_lines: no flat list when the classification is empty.
link_lines_NoFlat(topic_map, summary_items) ==
    IF topic_map # <<>>
    THEN <<Line("heading_topics", "", 0, "", <<>>)>>
         \o topic_lines(sorted_keys(topic_map), topic_map, summary_items)
    ELSE <<Line("heading_flat", "", 0, "", <<>>)>>

\* link_lines of run_pipeline: by topic, or the flat list when topic_map is
\* empty.
link_lines(topic_map, summary_items) ==
    IF topic_map # <<>>
    THEN <<Line("heading_topics", "", 0, "", <<>>)>>
         \o topic_lines(sorted_keys(topic_map), topic_map, summary_items)
    ELSE <<Line("heading_flat", "", 0, "", <<>>)>>
         \o [k \in 1..Len(summary_items) |->
                Line("item", "", summary_items[k].index, summary_items[k].source,
                     <<summary_items[k].url>>)]

\* The <h3> and <li> elements of one topic of build_html_report.
RECURSIVE html_topics(_, _, _)
html_topics(labels, topic_map, summary_items) ==
    IF labels = <<>> THEN <<>>
    ELSE LET members == Found(NumsOf(topic_map, Head(labels)), summary_items)
         IN <<Line("topic", Head(labels), 0, "", <<>>)>>
            \o [j \in 1..Len(members) |->
                   Line("li", "", 0, members[j].source, <<members[j].url>>)]
            \o html_topics(Tail(labels), topic_map, summary_items)

\* The link section of build_html_report.
build_html_report(topic_map, summary_items) ==
    IF topic_map # <<>>
    THEN html_topics(sorted_keys(topic_map), topic_map, summary_items)
    ELSE <<Line("heading_flat", "", 0, "", <<>>)>>
         \o [k \in 1..Len(summary_items) |->
                Line("li", "", summary_items[k].index, summary_items[k].source,
                     <<summary_items[k].url>>)]

\* run_pipeline: items = load_items_from_file(url_file); SystemExit if empty.
Fp_Load ==
    /\ rProg = "frontpage" /\ rPc = "start"
    /\ IF Loaded(rItems) = <<>>
       THEN /\ Terminate("SystemExit")
            /\ UNCHANGED rCursor
       ELSE /\ rPc' = "summarize"
            /\ rCursor' = 1
            /\ rExit' = rExit
    /\ UNCHANGED <<rProg, rItems, rTask, rFuture, rDoneOrder, rContents, rSummaries,
                   rAnalysis, rReport, rArtifacts, rSent, rCalls, rLines, xVars, cVars, dVars>>

\* One iteration of "for item in items": fetch_article_text, then
\* summarize_article; either raising skips the item (continue).
Fp_Item ==
    /\ rProg = "frontpage" /\ rPc = "summarize"
    /\ rCursor <= Len(Loaded(rItems))
    /\ LET item == Loaded(rItems)[rCursor]
       IN \E outcome \in ItemOutcomes :
             /\ rSummaries' = IF outcome = "summarized"
                              THEN AppendSummary(rSummaries, item)
                              ELSE rSummaries
             /\ rCalls' =
                   IF outcome = "fetch_raises"
                   THEN Call(rCalls, "fetch", item.index, FALSE)
                   ELSE Call(Call(rCalls, "fetch", item.index, TRUE),
                             "summarize", item.index, outcome = "summarized")
    /\ rCursor' = rCursor + 1
    /\ UNCHANGED <<rProg, rPc, rItems, rTask, rFuture, rDoneOrder, rContents,
                   rAnalysis, rReport, rArtifacts, rSent, rExit, rLines, xVars, cVars, dVars>>

\* After the loop: SystemExit when nothing was summarized.
Fp_AfterLoop ==
    /\ rProg = "frontpage" /\ rPc = "summarize"
    /\ rCursor > Len(Loaded(rItems))
    /\ IF rSummaries = <<>>
       THEN Terminate("SystemExit")
       ELSE rPc' = "compare" /\ rExit' = rExit
    /\ UNCHANGED <<rProg, rItems, rTask, rFuture, rDoneOrder, rContents, rCursor,
                   rSummaries, rAnalysis, rReport, rArtifacts, rSent, rCalls, rLines, xVars, cVars, dVars>>

\* analysis_body = compare_summaries(...): the collaborator call is not
\* inside any try block, so a failing call raises out of run_pipeline.
Fp_Compare ==
    /\ rProg = "frontpage" /\ rPc = "compare"
    /\ \E raised \in BOOLEAN :
          /\ rCalls' = Call(rCalls, "compare", 0, ~raised)
          /\ IF raised
             THEN Terminate("uncaught_APIError")
             ELSE rPc' = "classify" /\ rExit' = rExit
    /\ UNCHANGED <<rProg, rItems, rTask, rFuture, rDoneOrder, rContents, rCursor,
                   rSummaries, rAnalysis, rReport, rArtifacts, rSent, rLines, xVars, cVars, dVars>>

\* topic_map = classify_topics(summary_items): a dict of topic -> numbers, or
\* {} when the call or the parsing of its reply fails.
Fp_Classify ==
    /\ rProg = "frontpage" /\ rPc = "classify"
    /\ \E reply \in ClassifyReplies :
          /\ rAnalysis' = [reply |-> reply.kind, result |-> classify_topics(reply)]
          /\ rCalls' = Call(rCalls, "classify", 0, reply.kind # "api_error")
    /\ rPc' = "report"
    /\ UNCHANGED <<rProg, rItems, rTask, rFuture, rDoneOrder, rContents, rCursor,
                   rSummaries, rReport, rArtifacts, rSent, rExit, rLines, xVars, cVars, dVars>>

\* The link section (by topic, or the flat list when topic_map is empty), the
\* final text, final_report.txt and build_html_report.
Fp_Report ==
    /\ rProg = "frontpage" /\ rPc = "report"
    /\ rReport' = [kind |-> IF rAnalysis.result = <<>> THEN "flat_links"
                            ELSE "topic_links",
                   lines |-> link_lines(rAnalysis.result, rSummaries),
                   html |-> build_html_report(rAnalysis.result, rSummaries)]
    /\ rArtifacts' = rArtifacts \cup {"final_report.txt", "final_report.html"}
    /\ rPc' = "send"
    /\ UNCHANGED <<rProg, rItems, rTask, rFuture, rDoneOrder, rContents, rCursor,
                   rSummaries, rAnalysis, rSent, rExit, rCalls, rLines, xVars, cVars, dVars>>

\* send_telegram_message(final_report), the last call of run_pipeline.
Fp_Send ==
    /\ rProg = "frontpage" /\ rPc = "send"
    /\ rSent' = TRUE
    /\ Terminate("completed")
    /\ UNCHANGED <<rProg, rItems, rTask, rFuture, rDoneOrder, rContents, rCursor,
                   rSummaries, rAnalysis, rReport, rArtifacts, rCalls, rLines, xVars, cVars, dVars>>

(* ---- build_urls_from_naver.py ---- *)

\* What the listing page of one press can do in build_urls_txt.
ListingOutcomes == {"links", "fetch_raises", "extract_raises"}

\* lines.append("# press"); lines.extend(links); lines.append("").
press_block(press_name, links) ==
    <<FileLine("press", press_name)>>
    \o [k \in 1..Len(links) |-> FileLine("url", links[k])]
    \o <<FileLine("blank", "")>>

\* One iteration of "for press_name, press_code in PRESS_LIST": a failing
\* request or extraction, or an empty result, adds nothing (continue).
Build_Press ==
    /\ rProg = "build_urls" /\ rPc \in {"start", "collect"}
    /\ rCursor < Len(PRESS_LIST)
    /\ LET press_name == PRESS_LIST[rCursor + 1]
           links == LinksOf(rItems, press_name)
       IN \E outcome \in ListingOutcomes :
             /\ rLines' = IF outcome = "links" /\ links # <<>>
                          THEN rLines \o press_block(press_name, links)
                          ELSE rLines
             /\ rCalls' = Call(rCalls, "listing", rCursor + 1, outcome # "fetch_raises")
    /\ rCursor' = rCursor + 1
    /\ rPc' = "collect"
    /\ UNCHANGED <<rProg, rItems, rTask, rFuture, rDoneOrder, rContents, rSummaries,
                   rAnalysis, rReport, rArtifacts, rSent, rExit, xVars, cVars, dVars>>

\* After the loop: SystemExit when no press gave a link, else urls.txt is
\* written.
Build_Write ==
    /\ rProg = "build_urls" /\ rPc \in {"start", "collect"}
    /\ rCursor = Len(PRESS_LIST)
    /\ IF rLines = <<>>
       THEN /\ Terminate("SystemExit")
            /\ UNCHANGED rArtifacts
       ELSE /\ rArtifacts' = rArtifacts \cup {"urls.txt"}
            /\ Terminate("completed")
    /\ UNCHANGED <<rProg, rItems, rTask, rFuture, rDoneOrder, rContents, rCursor,
                   rSummaries, rAnalysis, rReport, rSent, rCalls, rLines, xVars, cVars, dVars>>

NextRun ==
    \/ Main_CollectLinks
    \/ \E i \in DOMAIN rTask : Main_StartFetch(i)
    \/ \E i \in DOMAIN rTask : Main_FinishFetch(i)
    \/ Main_NextResult
    \/ Main_Analyze
    \/ Main_Report
    \/ Main_Telegraph
    \/ Main_Send
    \/ Fp_Load
    \/ Fp_Item
    \/ Fp_AfterLoop
    \/ Fp_Compare
    \/ Fp_Classify
    \/ Fp_Report
    \/ Fp_Send
    \/ Build_Press
    \/ Build_Write

SpecRun == InitRun /\ [][NextRun]_vars

-----------------------------------------------------------------------------
(* Report assembly on its own: main and run_pipeline from the point where  *)
(* the analysis result is in hand, over every shape of result the          *)
(* collaborator can return for the items at hand.                          *)

MaxIds == 2

\* Member indices a reply can name: valid ones, ones past the end, negative ones.
IdPool == {0 - 9, 0 - 1, 0, 1, 9}
IdLists == UNION {[1..n -> IdPool] : n \in 0..MaxIds}

\* Replies of one topic over any member list, and of two topics of every
\* combination of sizes.
TopicLists ==
    LET sized == {ids \in IdLists : ids # <<>> /\ \A k \in 1..Len(ids) : ids[k] = 0}
    IN {<<Topic("A", ids)>> : ids \in IdLists}
       \cup {<<Topic("A", a), Topic("B", b)>> : a \in sized, b \in sized}

\* Article numbers a classification can name: summarized, skipped or invented.
NumPool == {1, 2, 9}
NumLists == UNION {[1..n -> NumPool] : n \in 0..MaxIds}

\* Classifications of one topic over any number list, and of two topics of
\* every combination of sizes, in both orders of the JSON object.
TopicMaps ==
    LET sized == {nums \in NumLists : nums # <<>> /\ \A k \in 1..Len(nums) : nums[k] = 1}
    IN {<<>>}
       \cup {<<Entry("A", nums)>> : nums \in NumLists}
       \cup {<<Entry("A", a), Entry("B", b)>> : a \in sized, b \in sized}
       \cup {<<Entry("B", b), Entry("A", a)>> : a \in sized, b \in sized}

\* The summaries left by a per-item loop in which the items in keep succeeded.
RECURSIVE SummariesOf(_, _, _)
SummariesOf(items, keep, i) ==
    IF i = 0 THEN <<>>
    ELSE IF i \in keep THEN AppendSummary(SummariesOf(items, keep, i - 1), items[i])
    ELSE SummariesOf(items, keep, i - 1)

InitReport ==
    /\ rProg \in {"main", "frontpage"}
    /\ rPc = "report"
    /\ \E n \in 1..MaxItems : rItems \in [1..n -> ItemPool]
    /\ rTask = <<>> /\ rFuture = <<>> /\ rDoneOrder = <<>>
    /\ IF rProg = "main"
       THEN /\ rContents = [i \in 1..Len(rItems) |->
                               fetch_single_article_content(rItems[i], "text")]
            /\ rCursor = 0 /\ rSummaries = <<>>
            /\ \E topics \in TopicLists :
                  rAnalysis = [reply |-> "topics",
                               result |-> analyze_with_gemini(Reply("topics", topics))]
            /\ rCalls = {[kind |-> "fetch", item |-> i, attempt |-> 1, ok |-> TRUE] :
                            i \in 1..Len(rItems)}
                        \cup {[kind |-> "listing", item |-> p, attempt |-> 1, ok |-> TRUE] :
                                 p \in 1..Len(PRESS_LIST)}
                        \cup {[kind |-> "analysis", item |-> 0, attempt |-> 1, ok |-> TRUE]}
       ELSE /\ rContents = <<>>
            /\ rCursor = Len(rItems) + 1
            /\ \E keep \in SUBSET (1..Len(rItems)) :
                  /\ keep # {}
                  /\ rSummaries = SummariesOf(Loaded(rItems), keep, Len(rItems))
                  /\ rCalls = {[kind |-> "fetch", item |-> i, attempt |-> 1, ok |-> i \in keep] :
                                  i \in 1..Len(rItems)}
                              \cup {[kind |-> "summarize", item |-> i, attempt |-> 1, ok |-> TRUE] :
                                       i \in keep}
                              \cup {[kind |-> k, item |-> 0, attempt |-> 1, ok |-> TRUE] :
                                       k \in {"compare", "classify"}}
            /\ \E topic_map \in TopicMaps :
                  rAnalysis = [reply |-> "topics",
                               result |-> classify_topics(Reply("topics", topic_map))]
    /\ rReport = NoReport /\ rArtifacts = {} /\ rSent = FALSE
    /\ rExit = "running" /\ rLines = <<>>
    /\ IdleExtract
    /\ IdleChunk
    /\ IdleDeliver

NextReport ==
    \/ Main_Report
    \/ Main_Telegraph
    \/ Main_Send
    \/ Fp_Report
    \/ Fp_Send

SpecReport == InitReport /\ [][NextReport]_vars

-----------------------------------------------------------------------------
(* Chunk delivery: the for loops of send_telegram (main.py) and            *)
(* send_telegram_message (frontpage_analysis.py).                          *)

FP_CHUNK_SIZE == 3500       \* chunk_size = 3500
TELEGRAM_LIMIT == 4096      \* the transport's limit named in the source comment

MaxLines == 2               \* lines of a report to deliver

\* Line lengths that accumulate under both chunk sizes (600 + 600), that
\* close a chunk (600 + 3000 against 3500, 3000 + 3000 against 4000) and
\* that exceed both chunk sizes on their own (4100).
LineLengths == {600, 3000, 4100}

\* str(n) for n >= 0
RECURSIVE Decimal(_)
Decimal(n) ==
    LET digit == <<"0", "1", "2", "3", "4", "5", "6", "7", "8", "9">>[(n % 10) + 1]
    IN IF n < 10 THEN <<digit>> ELSE Append(Decimal(n \div 10), digit)

\* "[<report title>" : the bracket and the 12 characters of the title
HeaderTitle == <<"[", "S", "M", " ", "1", "M", " ", "B", "S", " ", "R", "P", "T">>

\* The header of chunk i of total: "[title i/total]\n\n", or "[title]\n\n"
\* when there is one chunk only.
Header(i, total) ==
    IF total > 1
    THEN HeaderTitle \o <<" ">> \o Decimal(i) \o <<"/">> \o Decimal(total) \o <<"]", LF, LF>>
    ELSE HeaderTitle \o <<"]", LF, LF>>

\* What one requests.post can do.
PostOutcomes == {"ok", "http_error", "exception"}

InitDeliver ==
    /\ dPc = "start"
    /\ dRoutine \in {"send_telegram", "send_telegram_message"}
    /\ dConfigured \in BOOLEAN
    /\ \E n \in 0..MaxLines : \E lens \in [1..n -> LineLengths] :
          dText = Join([i \in 1..n |-> LineOf(lens[i])])
    /\ dChunks = <<>>
    /\ dNext = 0
    /\ dLog = <<>>
    /\ IdleExtract
    /\ IdleChunk
    /\ IdleRun

\* Entry of either routine: return at once when the token or the chat id is
\* missing, otherwise split the text.
Deliver_Split(routine, chunks) ==
    /\ dPc = "start" /\ dRoutine = routine
    /\ IF dConfigured
       THEN /\ dChunks' = chunks
            /\ dNext' = 1
            /\ dPc' = IF chunks = <<>> THEN "done" ELSE "loop"
       ELSE /\ dPc' = "done"
            /\ UNCHANGED <<dChunks, dNext>>
    /\ UNCHANGED <<dRoutine, dConfigured, dText, dLog, xVars, cVars, rVars>>

SendTelegram_Split ==
    Deliver_Split("send_telegram", split_message(dText, MAIN_CHUNK_SIZE))

SendTelegramMessage_Split ==
    Deliver_Split("send_telegram_message", send_telegram_message_chunks(dText, FP_CHUNK_SIZE))

\* Variant of SendTelegram_Post: a chunk whose post failed is posted again.
SendTelegram_Post_Again ==
    /\ dPc = "loop" /\ dRoutine = "send_telegram"
    /\ \E outcome \in PostOutcomes :
          /\ dLog' = Append(dLog, [chunk |-> dNext, size |-> Len(dChunks[dNext]),
                                   outcome |-> outcome])
          /\ dNext' = IF outcome = "ok" THEN dNext + 1 ELSE dNext
          /\ dPc' = IF outcome = "ok" /\ dNext = Len(dChunks) THEN "done" ELSE "loop"
    /\ UNCHANGED <<dRoutine, dConfigured, dText, dChunks, xVars, cVars, rVars>>

\* main.py, one iteration of "for i, chunk_text in enumerate(chunks)": the
\* post; a status other than 200 and an exception are printed, and the loop
\* goes on with the next chunk.
SendTelegram_Post ==
    /\ dPc = "loop" /\ dRoutine = "send_telegram"
    /\ \E outcome \in PostOutcomes :
          dLog' = Append(dLog, [chunk |-> dNext, size |-> Len(dChunks[dNext]),
                                outcome |-> outcome])
    /\ dNext' = dNext + 1
    /\ dPc' = IF dNext = Len(dChunks) THEN "done" ELSE "loop"
    /\ UNCHANGED <<dRoutine, dConfigured, dText, dChunks, xVars, cVars, rVars>>

\* frontpage_analysis.py, one iteration of "for i, chunk in
\* enumerate(chunks, start=1)": the post of header + chunk; raise_for_status
\* or an exception logs the failure and breaks out of the loop.
SendTelegramMessage_Post ==
    /\ dPc = "loop" /\ dRoutine = "send_telegram_message"
    /\ \E outcome \in PostOutcomes :
          /\ dLog' = Append(dLog,
                  [chunk |-> dNext,
                   size |-> Len(Header(dNext, Len(dChunks)) \o dChunks[dNext]),
                   outcome |-> outcome])
          /\ dPc' = IF outcome # "ok" \/ dNext = Len(dChunks) THEN "done" ELSE "loop"
    /\ dNext' = dNext + 1
    /\ UNCHANGED <<dRoutine, dConfigured, dText, dChunks, xVars, cVars, rVars>>

NextDeliver ==
    \/ SendTelegram_Split
    \/ SendTelegram_Post
    \/ SendTelegramMessage_Split
    \/ SendTelegramMessage_Post

SpecDeliver == InitDeliver /\ [][NextDeliver]_vars

-----------------------------------------------------------------------------
(* Properties of message splitting (SpecChunk).                            *)

\* Offsets in the text at which a part of `parts` ends, the last one excluded.
InnerEnds(parts) ==
    {Len(Join(SubSeq(parts, 1, k))) : k \in 1..(Len(parts) - 1)}

\* Offset b falls strictly inside line j of `lines`.
InsideLine(lines, j, b) ==
    /\ Len(Join(SubSeq(lines, 1, j - 1))) < b
    /\ b < Len(Join(SubSeq(lines, 1, j)))

\* C4: the chunks of either splitter, concatenated in order, are the
\* original text.
C4_ChunksConcatenateToText ==
    cPc = "ret" => Join(cChunks) = cMsg

\* C4 witness: a text of several lines split into three or more chunks.
C4_Witness ==
    /\ cPc = "ret"
    /\ Len(cChunks) >= 3
    /\ Len(splitlines(cMsg)) >= 2
    /\ \E i \in 1..Len(cMsg) : cMsg[i] \in Letters

\* C5: every chunk of split_message is non-empty and at most chunk_size
\* long, and a chunk boundary falls inside a line only when that line is
\* longer than chunk_size.
C5_ChunksWithinLimitOnLineEnds ==
    (cPc = "ret" /\ cRoutine = "split_message") =>
        /\ \A k \in 1..Len(cChunks) : 1 <= Len(cChunks[k]) /\ Len(cChunks[k]) <= cLimit
        /\ \A b \in InnerEnds(cChunks) :
              \A j \in 1..Len(splitlines(cMsg)) :
                 InsideLine(splitlines(cMsg), j, b) => Len(splitlines(cMsg)[j]) > cLimit

\* C5 witness: split_message cut one over-long line and also closed a chunk
\* at a line end.
C5_Witness ==
    /\ cPc = "ret"
    /\ cRoutine = "split_message"
    /\ \E b \in InnerEnds(cChunks) :
          \E j \in 1..Len(splitlines(cMsg)) : InsideLine(splitlines(cMsg), j, b)
    /\ \E b \in InnerEnds(cChunks) : b \in InnerEnds(splitlines(cMsg))

\* split_message has returned the chunks of a report of 10,050 characters,
\* one line of 10,000 and one of 50, for the limit 4000.
LongReportSplit ==
    /\ cPc = "ret" /\ cRoutine = "split_message"
    /\ cLimit = 4000
    /\ cMsg \in LongReports

\* C15 as stated: such a report gives exactly 3 chunks, each at most 4000
\* characters long, whose concatenation is the report.
C15_LongReportInThreeChunks ==
    LongReportSplit =>
        /\ Len(cChunks) = 3
        /\ \A k \in 1..Len(cChunks) : Len(cChunks[k]) <= 4000
        /\ Join(cChunks) = cMsg

\* C15 amended: such a report gives exactly 4 chunks, each at most 4000
\* characters long, whose concatenation is the report: the long line's
\* pieces of 4000, 4000 and 2000 characters and, apart, the short line.
C15_LongReportInFourChunks ==
    LongReportSplit =>
        /\ Len(cChunks) = 4
        /\ \A k \in 1..Len(cChunks) : Len(cChunks[k]) <= 4000
        /\ Join(cChunks) = cMsg
        /\ \E k \in {1, 4} : Len(cChunks[k]) = 50
        /\ \E k \in {3, 4} : Len(cChunks[k]) = 2000

\* C15 witness: the report whose long line comes first has been split.
C15_Witness ==
    /\ LongReportSplit
    /\ Len(splitlines(cMsg)) = 2
    /\ Len(splitlines(cMsg)[1]) = 10000
    /\ Len(cMsg) = 10050

-----------------------------------------------------------------------------
(* Properties of a run (SpecRun).                                          *)

\* C1: the list fetch_contents_parallel builds follows the input item by
\* item (same source, same url), and has the input's length once the fetch
\* has returned, whichever fetches fail and in whatever order they finish.
C1_FetchPreservesOrder ==
    rProg = "main" =>
        /\ Len(rContents) <= Len(rItems)
        /\ \A i \in 1..Len(rContents) :
              /\ rContents[i].source = rItems[i].source
              /\ rContents[i].url = rItems[i].url
        /\ rPc \notin {"start", "fetch"} => Len(rContents) = Len(rItems)

\* C1 witness: the fetch returned for items that differ, one fetch failed,
\* and the first task submitted was not the first to finish.
C1_Witness ==
    /\ rProg = "main" /\ rPc = "analyze"
    /\ Len(rItems) >= 2 /\ rItems[1] # rItems[2]
    /\ rDoneOrder[1] # 1
    /\ \E i \in 1..Len(rContents) : "content" \notin DOMAIN rContents[i]

\* C2: every item of the list fetch_contents_parallel returns has a body
\* ("content") that later stages can read, also when its fetch failed.
C2_EveryFetchedItemHasBody ==
    rProg = "main" =>
        \A i \in 1..Len(rContents) : "content" \in DOMAIN rContents[i]

\* A fatal condition: no link discovered (main), no item summarized
\* (frontpage).
FatalCondition ==
    \/ rProg = "main" /\ rItems = <<>>
    \/ rProg = "frontpage" /\ rSummaries = <<>>

\* C3: a run that hit no fatal condition has called the delivery routine
\* with a report by the time it ends.
C3_RunReachesDelivery ==
    (rProg \in {"main", "frontpage"} /\ rPc = "done" /\ ~FatalCondition) => rSent

-----------------------------------------------------------------------------
(* Properties of chunk delivery (SpecDeliver).                             *)

\* C6: every payload send_telegram_message posts (header plus chunk) is at
\* most TELEGRAM_LIMIT characters long.
C6_PayloadWithinHardLimit ==
    dRoutine = "send_telegram_message" =>
        \A k \in 1..Len(dLog) : dLog[k].size <= TELEGRAM_LIMIT

\* C7: in both routines, once the post of a chunk has failed no later chunk
\* is posted: every post but the last one made has succeeded.
C7_FailFastDelivery ==
    \A k \in 1..(Len(dLog) - 1) : dLog[k].outcome = "ok"

\* C16: in both routines the chunks are posted in increasing order of their
\* position, each at most once, and a chunk is posted only when the outcome
\* of every chunk before it is on record.
C16_ChunksPostedInOrderOnce ==
    /\ Len(dLog) <= Len(dChunks)
    /\ \A k \in 1..Len(dLog) :
          /\ dLog[k].chunk = k
          /\ dLog[k].outcome \in PostOutcomes
    /\ dPc = "loop" => dNext = Len(dLog) + 1

\* C16 witness: send_telegram has posted three chunks or more, the first of
\* which failed.
C16_Witness ==
    /\ dRoutine = "send_telegram" /\ dPc = "done"
    /\ Len(dLog) >= 3
    /\ dLog[1].outcome # "ok"

-----------------------------------------------------------------------------
(* Properties of link extraction (SpecExtract).                            *)

\* The anchors whose href matches the press code and the date.
MatchingAnchors(html) ==
    {i \in 1..Len(html) : HrefMatches(html[i].href, PressCode, Date)}

\* The matching anchors with a front-page keyword within AncestorLevels ancestors.
MarkedAnchors(html) == {i \in MatchingAnchors(html) : is_a1(html, i)}

\* The resolved URLs of the matching anchors, in document order.
RECURSIVE MatchingUrls(_, _)
MatchingUrls(html, n) ==
    IF n = 0 THEN <<>>
    ELSE IF n \in MatchingAnchors(html)
         THEN Append(MatchingUrls(html, n - 1), urljoin(html[n].href))
         ELSE MatchingUrls(html, n - 1)

FirstN(s, n) == SubSeq(s, 1, IF Len(s) < n THEN Len(s) ELSE n)

NoRepeats(s) == \A i, j \in 1..Len(s) : i # j => s[i] # s[j]

\* C8: when no matching link is keyword-marked, extract_a1_links (either
\* script) returns at most 4 links, and they are the first 4 distinct
\* matching links in document order.
C8_FallbackFirstFourInOrder ==
    (xPc = "ret" /\ MarkedAnchors(xMarkup) = {}) =>
        /\ Len(xLinks) <= FallbackLimit
        /\ xLinks = FirstN(FirstOccurrences(MatchingUrls(xMarkup, Len(xMarkup))), FallbackLimit)

\* C9: when some matching link is keyword-marked, the result holds the URLs
\* of the keyword-marked links and nothing else, however many they are.
C9_KeywordPathExclusive ==
    (xPc = "ret" /\ MarkedAnchors(xMarkup) # {}) =>
        Range(xLinks) = {urljoin(xMarkup[i].href) : i \in MarkedAnchors(xMarkup)}

\* C9 witness: a keyword-path result that leaves out an unmarked matching link.
C9_Witness ==
    /\ xPc = "ret"
    /\ MarkedAnchors(xMarkup) # {}
    /\ \E i \in MatchingAnchors(xMarkup) \ MarkedAnchors(xMarkup) :
           urljoin(xMarkup[i].href) \notin Range(xLinks)

\* C10: the returned sequence repeats no URL and holds every distinct URL of
\* the winning path's candidates.
C10_NoRepeatedUrl ==
    xPc = "ret" =>
        /\ NoRepeats(xLinks)
        /\ Range(xLinks) = Range(Candidates(xMarkup, PressCode, Date))

\* C10 witness: a result taken from candidates in which one URL occurs twice.
C10_Witness ==
    /\ xPc = "ret"
    /\ ~NoRepeats(Candidates(xMarkup, PressCode, Date))
    /\ Len(xLinks) >= 2

-----------------------------------------------------------------------------
(* Properties of report assembly (SpecReport).                             *)

\* The links of the members that lie in [0, len(contents)), each to the item
\* at exactly that index.
InRangeLinks(ids, contents) ==
    LET kept == SelectSeq(ids, LAMBDA idx : 0 <= idx /\ idx < Len(contents))
    IN [k \in 1..Len(kept) |-> [url |-> contents[kept[k] + 1].url,
                                source |-> contents[kept[k] + 1].source]]

\* C11: in main.py every member index outside [0, len(contents)), negative
\* or too large, is dropped without ending the run, and only in-range
\* indices produce a link, to the item at exactly that index.
C11_OutOfRangeIndicesDropped ==
    rProg = "main" =>
        /\ rExit # "uncaught_IndexError"
        /\ rReport.kind = "briefing" =>
              \A t \in 1..Len(rReport.topics) :
                 rReport.topics[t].links = InRangeLinks(rReport.topics[t].ids, rContents)

\* The position of a topic title in the collaborator's reply.
ReplyPosition(title) ==
    CHOOSE k \in 1..Len(rAnalysis.result.topics) : rAnalysis.result.topics[k].title = title

\* main.py: the rendered topics are in descending order of member count,
\* topics of equal count in the order of the reply.
MainTopicsByCount ==
    (rProg = "main" /\ rReport.kind = "briefing") =>
        \A i, j \in 1..Len(rReport.topics) :
           i < j =>
              /\ rReport.topics[i].count >= rReport.topics[j].count
              /\ rReport.topics[i].count = rReport.topics[j].count =>
                    ReplyPosition(rReport.topics[i].title)
                        < ReplyPosition(rReport.topics[j].title)

\* The topic labels of a rendered link section, in the order rendered.
TopicLabels(lines) ==
    LET heads == SelectSeq(lines, LAMBDA l : l.kind = "topic")
    IN [k \in 1..Len(heads) |-> heads[k].label]

\* The position of a topic label in the classifier's reply.
MapPosition(label) ==
    CHOOSE k \in 1..Len(rAnalysis.result) : rAnalysis.result[k].label = label

\* A sequence of labels is in descending order of member count, labels of
\* equal count in the order of the reply.
LabelsByCount(labels) ==
    \A i, j \in 1..Len(labels) :
       i < j =>
          /\ Len(NumsOf(rAnalysis.result, labels[i]))
                >= Len(NumsOf(rAnalysis.result, labels[j]))
          /\ Len(NumsOf(rAnalysis.result, labels[i]))
                = Len(NumsOf(rAnalysis.result, labels[j])) =>
                MapPosition(labels[i]) < MapPosition(labels[j])

\* The rank of a label in Python's string order.
LabelRank(label) == CHOOSE k \in 1..Len(LabelOrder) : LabelOrder[k] = label

\* A sequence of labels holds every label of the classification once, in
\* ascending string order.
LabelsByName(labels) ==
    /\ Range(labels) = {rAnalysis.result[k].label : k \in 1..Len(rAnalysis.result)}
    /\ \A i, j \in 1..Len(labels) : i < j => LabelRank(labels[i]) < LabelRank(labels[j])

C19_HeaderCountEqualsLinks ==
    (rProg = "main" /\ rReport.kind = "briefing") =>
        \A t \in 1..Len(rReport.topics) :
           rReport.topics[t].count = Len(rReport.topics[t].links)

\* The URLs a rendered link section shows.
UrlsShown(lines) == UNION {Range(lines[k].urls) : k \in 1..Len(lines)}

\* C20: whatever the classification, the link section of the final text
\* report shows the URL of every summarized item and no other URL.
C20_LinkSectionShowsSummarizedUrls ==
    (rProg = "frontpage" /\ rReport.kind \in {"flat_links", "topic_links"}) =>
        UrlsShown(rReport.lines) = {rSummaries[k].url : k \in 1..Len(rSummaries)}

-----------------------------------------------------------------------------
(* Further properties of runs (SpecRun).                                   *)

\* The collaborator's classification reply could not be parsed.
Unparseable == rAnalysis.reply = "bad_json"

\* The report was assembled.
Assembled == rReport.kind # "none"

\* The ways a run ends in an exception nothing catches.
Uncaught ==
    {"uncaught_KeyError", "uncaught_AttributeError", "uncaught_IndexError",
     "uncaught_APIError"}

\* The flat enumeration of run_pipeline: after the heading, one line per
\* summarized item, in order, labelled by the item's number.
FlatEnumeration ==
    /\ rReport.kind = "flat_links"
    /\ Len(rReport.lines) = Len(rSummaries) + 1
    /\ \A k \in 1..Len(rSummaries) :
          /\ rReport.lines[k + 1].kind = "item"
          /\ rReport.lines[k + 1].index = rSummaries[k].index
          /\ rReport.lines[k + 1].urls = <<rSummaries[k].url>>

\* One group per fetched item in main.py: N topics, the k-th holding exactly
\* the k-th item.
SingleMemberGroups ==
    /\ rReport.kind = "briefing"
    /\ Len(rReport.topics) = Len(rContents)
    /\ \A k \in 1..Len(rContents) : rReport.topics[k].ids = <<k - 1>>

NothingToReport ==
    \/ rProg = "main" /\ rItems = <<>>
    \/ rProg = "build_urls" /\ rLines = <<>>
    \/ rProg = "frontpage" /\ rSummaries = <<>>

\* C14: a run that ends with no link discovered or no item summarized ends
\* through a fatal exit (an exception with a message, a non-zero status),
\* having written no report artifact and attempted no delivery.
C14_FatalConditionsExit ==
    (rPc = "done" /\ NothingToReport) =>
        /\ rExit = "SystemExit"
        /\ rArtifacts = {}
        /\ ~rSent

\* Both calls of run_pipeline's loop succeeded for item i.
Succeeded(i) ==
    /\ [kind |-> "fetch", item |-> i, attempt |-> 1, ok |-> TRUE] \in rCalls
    /\ [kind |-> "summarize", item |-> i, attempt |-> 1, ok |-> TRUE] \in rCalls

\* The items of the url file for which both calls succeeded, in the order of
\* the file, each with its position in the file as its number.
SucceededItems ==
    LET idxs == SelectSeq([i \in 1..Len(rItems) |-> i], Succeeded)
    IN [k \in 1..Len(idxs) |->
           [index |-> idxs[k], source |-> rItems[idxs[k]].source,
            url |-> rItems[idxs[k]].url, summary |-> "summary"]]

\* C17: in run_pipeline the summaries are exactly the items for which the
\* fetch and the summarization both succeeded, in input order and with their
\* load-time numbers; a failing item removes only itself, the loop goes on
\* to every later item.
C17_FailingItemRemovesOnlyItself ==
    rProg = "frontpage" =>
        /\ rSummaries = SucceededItems
        /\ rPc \in {"compare", "classify", "report", "send"} =>
              \A i \in 1..Len(rItems) :
                 \E c \in rCalls : c.kind = "fetch" /\ c.item = i

\* C17 witness: of three items the second failed, the first and the third
\* were summarized, and the loop is over.
C17_Witness ==
    /\ rProg = "frontpage" /\ rPc = "compare"
    /\ Len(rItems) = 3
    /\ ~Succeeded(2)
    /\ Len(rSummaries) = 2
    /\ rSummaries[2].index = 3

\* C18 as stated: no remote resource is requested a second time.
C18_EveryResourceAttemptedOnce ==
    \A c \in rCalls : c.attempt = 1

\* C18 amended: no listing page, article fetch, summarization, comparison
\* or classification is requested a second time; only the analysis request
\* of main.py is repeated, and only after an attempt that failed.
C18_OnlyTheAnalysisCallIsRetried ==
    \A c \in rCalls :
       c.attempt > 1 =>
          /\ rProg = "main" /\ c.kind = "analysis"
          /\ [kind |-> "analysis", item |-> 0, attempt |-> c.attempt - 1, ok |-> FALSE]
                \in rCalls

\* C18 witness: after the listing pages and two article fetches, the
\* analysis was requested twice.
C18_Witness ==
    /\ rProg = "main"
    /\ \E c \in rCalls : c.kind = "listing"
    /\ \E c \in rCalls : c.kind = "fetch" /\ c.item = 2
    /\ \E c \in rCalls : c.kind = "analysis" /\ c.attempt = 2

====
